---- MODULE Spec2Model ----
(***************************************************************************)
(* Model of the website audit endpoint (POST /api/analyze): the fetch      *)
(* orchestration of POST, the signal extraction of scrapeWebsiteData and   *)
(* the five category scorers, after the latest revision of route.js.       *)
(*                                                                         *)
(* Abstractions.  The HTML text is a record of the outcomes of the regular *)
(* expressions the code applies to it (one field per pattern, counts for   *)
(* the patterns that are counted).  A Lighthouse sub-score in [0,1] is an  *)
(* integer number of hundredths, 0..100.  JavaScript null / undefined are  *)
(* the record NULL, a missing numeric field is UNDEF.                      *)
(***************************************************************************)
EXTENDS Integers, Sequences, FiniteSets, TLC

\* ------------------------------------------------------------------------
\* Bounds of the model (not program constants)
\* ------------------------------------------------------------------------
MaxBlocks == 2
MaxH1 == 2
MaxImgs == 2
ManyImgs == 10

\* ------------------------------------------------------------------------
\* JavaScript values
\* ------------------------------------------------------------------------
NULL == [null |-> TRUE]
Thrown == [threw |-> TRUE]
UNDEF == -1

Min(a, b) == IF a <= b THEN a ELSE b
Max(a, b) == IF a >= b THEN a ELSE b

\* Math.round(x * k) for x = p / 100; p * k is never an odd multiple of 50
\* for the factors used (40 and 100), so there are no ties to break.
RoundScaled(p, k) == (p * k + 50) \div 100

\* `v || 0` on a sub-score that may be undefined
OrZero(p) == IF p = UNDEF THEN 0 ELSE p

Has(r, f) == f \in DOMAIN r

RECURSIVE SumScores(_)
SumScores(cs) == IF cs = <<>> THEN 0 ELSE Head(cs).score + SumScores(Tail(cs))

Check(n, st, sc, mx) == [name |-> n, status |-> st, score |-> sc, maxScore |-> mx]

\* ------------------------------------------------------------------------
\* Signal extraction
\* ------------------------------------------------------------------------
\* A JSON-LD block by the @type its text declares; "invalid" is a block
\* JSON.parse rejects, "FAQPageEscaped" one that spells the type FAQPage with
\* JSON escapes (as in "FAQ\\u0050age").
BlockKinds == {"invalid", "LocalBusiness", "FAQPage", "FAQPageEscaped", "Review", "Thing"}

\* parsed['@type']: JSON.parse decodes the escapes of the string
DeclaredType(b) == IF b = "FAQPageEscaped" THEN "FAQPage" ELSE b

RECURSIVE ParsedBlocks(_)
\* Variant: one block that fails to parse aborts the extraction
ParsedBlocks_Abort(bs) ==
  IF \E i \in 1..Len(bs) : bs[i] = "invalid" THEN <<>>
  ELSE [ i \in 1..Len(bs) |-> DeclaredType(bs[i]) ]

ParsedBlocks(bs) ==
  IF bs = <<>> THEN <<>>
  ELSE IF Head(bs) = "invalid" THEN ParsedBlocks(Tail(bs))
       ELSE <<DeclaredType(Head(bs))>> \o ParsedBlocks(Tail(bs))

\* Variant: only the first parsed block is inspected
SomeType_First(schemas, types) == schemas # <<>> /\ schemas[1] \in types

SomeType(schemas, types) == \E i \in 1..Len(schemas) : schemas[i] \in types

extractSchemaMarkup(html) ==
  LET schemas == ParsedBlocks(html.blocks) IN
  [ found |-> Len(schemas) > 0,
    count |-> Len(schemas),
    schemas |-> schemas,
    hasLocalBusiness |-> SomeType(schemas, {"LocalBusiness", "Organization", "ProfessionalService"}),
    hasFAQSchema |-> SomeType(schemas, {"FAQPage"}),
    hasReviewSchema |-> SomeType(schemas, {"Review", "AggregateRating"}),
    hasServiceSchema |-> SomeType(schemas, {"Service", "Product"}) ]

\* Labels whose pattern matched, in registry order.
ChatbotRegistry == <<"Intercom", "Drift", "HubSpot Chat", "Zendesk Chat", "LiveChat",
  "Tidio", "Crisp", "Freshchat", "Tawk.to", "Olark", "Chatra", "JivoChat", "Smartsupp",
  "Zoho SalesIQ", "Facebook Messenger", "Chatbot.com", "Voiceflow", "Botpress", "Landbot">>

VoiceRegistry == <<"Vapi.ai", "Bland.ai", "Retell AI", "Synthflow", "Vocode", "PlayHT",
  "ElevenLabs", "Air AI">>

Matched(registry, hits) == SelectSeq(registry, LAMBDA l : l \in hits)

checkForChatbot(html) ==
  LET detected == Matched(ChatbotRegistry, html.chatHits) IN
  [ detected |-> Len(detected) > 0,
    providers |-> detected,
    confidence |-> IF Len(detected) > 0 THEN "high" ELSE "none" ]

checkForVoiceAgent(html) ==
  LET detected == Matched(VoiceRegistry, html.voiceHits) IN
  [ detected |-> Len(detected) > 0,
    providers |-> detected,
    confidence |-> IF Len(detected) > 0 THEN "high" ELSE "none" ]

\* Variant: the generic label is pushed whenever a structural pattern matches
checkForCalculator_AllLabels(html) ==
  LET d1 == IF html.calcPlatform THEN <<"Third-party Calculator Tool">> ELSE <<>>
      d2 == d1 \o (IF html.calcId THEN <<"Custom Calculator">> ELSE <<>>)
      d3 == d2 \o (IF html.calcQuoteForm THEN <<"Interactive Quote Form">> ELSE <<>>)
      detected == d3 \o (IF html.calcStructural THEN <<"Calculator/Quote Tool">> ELSE <<>>)
  IN [ detected |-> Len(detected) > 0,
       types |-> detected,
       confidence |-> IF Len(detected) > 0 THEN "medium" ELSE "none" ]

checkForCalculator(html) ==
  LET d1 == IF html.calcPlatform THEN <<"Third-party Calculator Tool">> ELSE <<>>
      d2 == d1 \o (IF html.calcId THEN <<"Custom Calculator">> ELSE <<>>)
      d3 == d2 \o (IF html.calcQuoteForm THEN <<"Interactive Quote Form">> ELSE <<>>)
      detected == IF html.calcStructural /\ Len(d3) = 0
                  THEN <<"Calculator/Quote Tool">> ELSE d3
  IN [ detected |-> Len(detected) > 0,
       types |-> detected,
       confidence |-> IF Len(detected) > 0 THEN "medium" ELSE "none" ]

\* A text field is the length of the trimmed capture, UNDEF when the tag is absent.
extractMetaTags(html) ==
  [ title |-> html.titleLen,
    description |-> html.descLen,
    ogTitle |-> html.ogTitle,
    ogDescription |-> html.ogDescription,
    canonical |-> html.canonical,
    robots |-> html.robots ]

\* <hN> elements whose text is not empty after trimming; only those whose
\* content holds no nested markup match the pattern at all.
extractHeadings(html) == [ h1 |-> html.h1Text ]

\* 'faq' is a substring of the JSON-LD type name FAQPage, so a page whose
\* text spells that type out mentions an indicator; an escaped spelling
\* does not.
checkForFAQ(html) ==
  html.faqMention \/ \E i \in 1..Len(html.blocks) : html.blocks[i] = "FAQPage"

extractLocalBusinessInfo(html) ==
  [ phone |-> html.phone, hasAddress |-> html.address, hasHours |-> html.hours ]

checkAEOIndicators(html) ==
  [ hasDefinitiveStatements |-> html.definitive,
    hasQAFormat |-> html.qaFormat,
    hasStructuredLists |-> html.lists,
    hasServiceDescriptions |-> html.services,
    hasExpertiseIndicators |-> html.expertise,
    hasProcessDescription |-> html.process,
    hasStatistics |-> html.statistics ]

\* Variant: the chatbot detector keeps what it saw on an earlier, plain-http page
BuildData_Stale(url, html, headers) ==
  [ html |-> html,
    headers |-> headers,
    hasHttps |-> (url = "https"),
    hasChatbot |-> checkForChatbot([ html EXCEPT !.chatHits = IF url = "http" THEN {} ELSE @ ]),
    hasVoiceAgent |-> checkForVoiceAgent(html),
    hasCalculator |-> checkForCalculator(html),
    schemaMarkup |-> extractSchemaMarkup(html),
    metaTags |-> extractMetaTags(html),
    headings |-> extractHeadings(html),
    hasFAQ |-> checkForFAQ(html),
    localBusinessInfo |-> extractLocalBusinessInfo(html),
    aeoIndicators |-> checkAEOIndicators(html) ]

\* The data object scrapeWebsiteData builds from a response body.
BuildData(url, html, headers) ==
  [ html |-> html,
    headers |-> headers,
    hasHttps |-> (url = "https"),
    hasChatbot |-> checkForChatbot(html),
    hasVoiceAgent |-> checkForVoiceAgent(html),
    hasCalculator |-> checkForCalculator(html),
    schemaMarkup |-> extractSchemaMarkup(html),
    metaTags |-> extractMetaTags(html),
    headings |-> extractHeadings(html),
    hasFAQ |-> checkForFAQ(html),
    localBusinessInfo |-> extractLocalBusinessInfo(html),
    aeoIndicators |-> checkAEOIndicators(html) ]

ErrorData(msg) == [ error |-> msg ]

\* `data.error` is truthy
HasError(data) == Has(data, "error") /\ data.error # ""

\* ------------------------------------------------------------------------
\* Optional-chained reads of the data object (`data.x?.y`, `data.html || ''`)
\* ------------------------------------------------------------------------
EmptyObject == <<>>

NoSchema == [ found |-> FALSE, count |-> 0, schemas |-> <<>>, hasLocalBusiness |-> FALSE,
              hasFAQSchema |-> FALSE, hasReviewSchema |-> FALSE, hasServiceSchema |-> FALSE ]
NoMeta == [ title |-> UNDEF, description |-> UNDEF, ogTitle |-> FALSE,
            ogDescription |-> FALSE, canonical |-> FALSE, robots |-> "absent" ]
NoLocal == [ phone |-> FALSE, hasAddress |-> FALSE, hasHours |-> FALSE ]
NoAEO == [ hasDefinitiveStatements |-> FALSE, hasQAFormat |-> FALSE,
           hasStructuredLists |-> FALSE, hasServiceDescriptions |-> FALSE,
           hasExpertiseIndicators |-> FALSE, hasProcessDescription |-> FALSE,
           hasStatistics |-> FALSE ]
NoHeaders == [ hsts |-> FALSE, csp |-> "absent", frameAncestors |-> FALSE, xfo |-> FALSE,
               xcto |-> "absent", referrer |-> FALSE, permissions |-> FALSE,
               server |-> FALSE, poweredBy |-> FALSE ]
\* The empty string: no pattern matches it.
EmptyHtml == [ chatHits |-> {}, voiceHits |-> {}, calcPlatform |-> FALSE, calcId |-> FALSE,
               calcQuoteForm |-> FALSE, calcStructural |-> FALSE, blocks |-> <<>>,
               titleLen |-> UNDEF, descLen |-> UNDEF, ogTitle |-> FALSE,
               ogDescription |-> FALSE, ogImage |-> FALSE, canonical |-> FALSE,
               robots |-> "absent", viewport |-> FALSE, h1Tags |-> 0, h1Text |-> 0,
               faqMention |-> FALSE, phone |-> FALSE, address |-> FALSE, hours |-> FALSE,
               definitive |-> FALSE, qaFormat |-> FALSE, lists |-> FALSE,
               services |-> FALSE, expertise |-> FALSE, process |-> FALSE,
               statistics |-> FALSE, mixedContent |-> FALSE, imgs |-> 0, imgsWithAlt |-> 0,
               formInputs |-> FALSE, labels |-> FALSE, skipLink |-> FALSE,
               landmarks |-> FALSE, lightText |-> FALSE, focusStyles |-> FALSE,
               langAttr |-> FALSE ]

SchemaOf(data) == IF Has(data, "schemaMarkup") THEN data.schemaMarkup ELSE NoSchema
MetaOf(data) == IF Has(data, "metaTags") THEN data.metaTags ELSE NoMeta
LocalOf(data) == IF Has(data, "localBusinessInfo") THEN data.localBusinessInfo ELSE NoLocal
AEOOf(data) == IF Has(data, "aeoIndicators") THEN data.aeoIndicators ELSE NoAEO
HeadersOf(data) == IF Has(data, "headers") THEN data.headers ELSE NoHeaders
HtmlOf(data) == IF Has(data, "html") THEN data.html ELSE EmptyHtml
H1Of(data) == IF Has(data, "headings") THEN data.headings.h1 ELSE 0

\* pageSpeedData?.lighthouseResult?.categories?.<category>?.score
PerfScore(psd) == IF psd = NULL THEN UNDEF ELSE psd.performance
A11yScore(psd) == IF psd = NULL THEN UNDEF ELSE psd.accessibility

Iss(cond, text) == IF cond THEN <<text>> ELSE <<>>

\* ------------------------------------------------------------------------
\* Category scorers
\* ------------------------------------------------------------------------
\* Variant: no early return on the error marker
analyzeAIReadiness_NoErrorGuard(data) ==
  IF ~(Has(data, "hasChatbot") /\ Has(data, "hasVoiceAgent") /\ Has(data, "hasCalculator"))
  THEN Thrown
  ELSE [ score |-> 0, features |-> EmptyObject, issues |-> <<>> ]

analyzeAIReadiness(data) ==
  IF HasError(data)
  THEN [ score |-> 0, features |-> EmptyObject, issues |-> <<"Could not analyze website">> ]
  ELSE IF ~(Has(data, "hasChatbot") /\ Has(data, "hasVoiceAgent") /\ Has(data, "hasCalculator"))
  THEN Thrown    \* features.chatbot.detected on an undefined feature
  ELSE
  LET features == [ chatbot |-> data.hasChatbot, voiceAgent |-> data.hasVoiceAgent,
                    calculator |-> data.hasCalculator ]
      sm == SchemaOf(data)
      score == (IF features.chatbot.detected THEN 30 ELSE 0)
             + (IF features.voiceAgent.detected THEN 25 ELSE 0)
             + (IF features.calculator.detected THEN 25 ELSE 0)
             + (IF sm.found
                THEN 10 + (IF sm.hasLocalBusiness THEN 5 ELSE 0)
                        + (IF sm.hasFAQSchema THEN 5 ELSE 0)
                ELSE 0)
      issues ==
           Iss(~features.chatbot.detected, "No AI chatbot detected - missing 24/7 lead qualification")
        \o Iss(~features.voiceAgent.detected, "No AI voice agent detected - after-hours calls go unanswered")
        \o Iss(~features.calculator.detected, "No instant quote/calculator tool - visitors want immediate answers")
        \o Iss(~sm.found, "No schema markup - AI assistants struggle to understand your business")
  IN [ score |-> Min(score, 100), features |-> features, issues |-> issues ]

AEOChecks(data) ==
  LET sm == SchemaOf(data)
      lb == LocalOf(data)
      aeo == AEOOf(data)
      hasFAQ == Has(data, "hasFAQ") /\ data.hasFAQ
      schemaScore == IF sm.found
                     THEN 10 + (IF sm.hasLocalBusiness THEN 5 ELSE 0)
                             + (IF sm.hasFAQSchema THEN 5 ELSE 0)
                     ELSE 0
      schemaCheck == Check("Schema Markup (Structured Data)",
                           IF sm.found THEN (IF sm.hasFAQSchema THEN "good" ELSE "partial")
                           ELSE "missing",
                           schemaScore, 20)
      faqCheck == IF hasFAQ \/ sm.hasFAQSchema
                  THEN IF sm.hasFAQSchema THEN Check("FAQ Content", "good", 15, 15)
                       ELSE Check("FAQ Content", "partial", 10, 15)
                  ELSE Check("FAQ Content", "missing", 0, 15)
      localScore == (IF lb.phone THEN 5 ELSE 0) + (IF lb.hasAddress THEN 5 ELSE 0)
                  + (IF lb.hasHours THEN 5 ELSE 0)
      localCheck == Check("Local Business Signals",
                          IF localScore >= 10
                          THEN (IF localScore = 15 THEN "good" ELSE "partial")
                          ELSE "missing",
                          localScore, 15)
      answersScore == (IF aeo.hasDefinitiveStatements THEN 8 ELSE 0)
                    + (IF aeo.hasServiceDescriptions THEN 7 ELSE 0)
                    + (IF aeo.hasProcessDescription THEN 5 ELSE 0)
      answersCheck == Check("Clear, Extractable Content",
                            IF answersScore >= 15 THEN "good"
                            ELSE IF answersScore >= 8 THEN "partial" ELSE "missing",
                            answersScore, 20)
      expertiseScore == (IF aeo.hasExpertiseIndicators THEN 10 ELSE 0)
                      + (IF aeo.hasStatistics THEN 5 ELSE 0)
      expertiseCheck == Check("Expertise & Trust Signals (E-E-A-T)",
                              IF expertiseScore >= 10 THEN "good"
                              ELSE IF expertiseScore >= 5 THEN "partial" ELSE "missing",
                              expertiseScore, 15)
      structureScore == (IF aeo.hasStructuredLists THEN 8 ELSE 0)
                      + (IF aeo.hasQAFormat THEN 7 ELSE 0)
      structureCheck == Check("Structured Content Format",
                              IF structureScore >= 12 THEN "good"
                              ELSE IF structureScore >= 5 THEN "partial" ELSE "missing",
                              structureScore, 15)
  IN <<schemaCheck, faqCheck, localCheck, answersCheck, expertiseCheck, structureCheck>>

AEOIssues(data, cs) ==
     Iss(~SchemaOf(data).found, "No structured data/schema markup - LLMs cannot easily parse your business info")
  \o Iss(cs[2].score = 0, "No FAQ content - missing opportunity for LLMs to extract Q&A")
  \o Iss(cs[3].score < 10, "Weak local signals - LLMs may not recommend you for local searches")
  \o Iss(cs[4].score < 8, "Content lacks clear, direct statements LLMs can extract")
  \o Iss(cs[5].score < 10, "Missing expertise indicators that build LLM trust")
  \o Iss(cs[6].score < 8, "Content not structured for LLM parsing")

analyzeAEOGEO(data) ==
  IF HasError(data)
  THEN [ score |-> 0, issues |-> <<>>, detailedChecks |-> <<>> ]
  ELSE LET cs == AEOChecks(data)
           score == SumScores(cs)
       IN [ score |-> Min(score, 100), issues |-> AEOIssues(data, cs),
            detailedChecks |-> cs, wouldRecommend |-> (score >= 60) ]

\* Length thresholds of the title and description checks
TitleMin == 30
TitleMax == 60
DescMin == 120
DescMax == 160

\* Variant: the schema check with the weights of the AEO/GEO schema check
SEOSchemaCheck_AEOWeights(sm) ==
  IF sm.found
  THEN Check("Schema Markup", IF sm.hasFAQSchema THEN "good" ELSE "partial",
             10 + (IF sm.hasLocalBusiness THEN 5 ELSE 0)
                + (IF sm.hasFAQSchema THEN 5 ELSE 0), 15)
  ELSE Check("Schema Markup", "missing", 0, 15)

SEOSchemaCheck(sm) ==
  IF sm.found
  THEN Check("Schema Markup", IF sm.hasFAQSchema THEN "good" ELSE "partial",
             10 + (IF sm.hasLocalBusiness THEN 3 ELSE 0)
                + (IF sm.hasFAQSchema THEN 2 ELSE 0), 15)
  ELSE Check("Schema Markup", "missing", 0, 15)

SEOChecks(data, pageSpeedData) ==
  LET mt == MetaOf(data)
      sm == SchemaOf(data)
      html == HtmlOf(data)
      h1 == H1Of(data)
      hasHttps == Has(data, "hasHttps") /\ data.hasHttps
      perf == OrZero(PerfScore(pageSpeedData))
      titleCheck == IF mt.title > 0
                    THEN IF mt.title >= TitleMin /\ mt.title <= TitleMax
                         THEN Check("Meta Title", "good", 15, 15)
                         ELSE Check("Meta Title", "partial", 10, 15)
                    ELSE Check("Meta Title", "missing", 0, 15)
      descCheck == IF mt.description > 0
                   THEN IF mt.description >= DescMin /\ mt.description <= DescMax
                        THEN Check("Meta Description", "good", 15, 15)
                        ELSE Check("Meta Description", "partial", 10, 15)
                   ELSE Check("Meta Description", "missing", 0, 15)
      h1Check == IF h1 = 1 THEN Check("H1 Heading", "good", 15, 15)
                 ELSE IF h1 > 1 THEN Check("H1 Heading", "partial", 5, 15)
                 ELSE Check("H1 Heading", "missing", 0, 15)
      schemaCheck == SEOSchemaCheck(sm)
      canonicalCheck == IF mt.canonical THEN Check("Canonical URL", "good", 10, 10)
                        ELSE Check("Canonical URL", "missing", 0, 10)
      ogCheck == IF mt.ogTitle /\ mt.ogDescription
                 THEN IF html.ogImage THEN Check("Open Graph Tags", "good", 10, 10)
                      ELSE Check("Open Graph Tags", "partial", 7, 10)
                 ELSE Check("Open Graph Tags", "missing", 0, 10)
      robotsCheck == IF mt.robots = "noindex" THEN Check("Robots Meta", "warning", 0, 5)
                     ELSE Check("Robots Meta", "good", 5, 5)
      mobileCheck == IF html.viewport /\ perf >= 50 THEN Check("Mobile Friendly", "good", 10, 10)
                     ELSE IF html.viewport THEN Check("Mobile Friendly", "partial", 5, 10)
                     ELSE Check("Mobile Friendly", "missing", 0, 10)
      httpsCheck == IF hasHttps THEN Check("HTTPS Security", "good", 10, 10)
                    ELSE Check("HTTPS Security", "missing", 0, 10)
      cwvCheck == IF perf >= 90 THEN Check("Core Web Vitals", "good", 10, 10)
                  ELSE IF perf >= 50 THEN Check("Core Web Vitals", "partial", 5, 10)
                  ELSE Check("Core Web Vitals", "missing", 0, 10)
  IN <<titleCheck, descCheck, h1Check, schemaCheck, canonicalCheck, ogCheck,
       robotsCheck, mobileCheck, httpsCheck, cwvCheck>>

SEOIssues(data, cs) ==
     Iss(cs[1].status = "missing", "Missing title tag")
  \o Iss(cs[2].status = "missing", "Missing meta description")
  \o Iss(cs[3].status = "partial", "Multiple H1 tags found")
  \o Iss(cs[3].status = "missing", "Missing H1 tag")
  \o Iss(cs[4].status = "missing", "No schema markup detected")
  \o Iss(cs[5].status = "missing", "Missing canonical URL")
  \o Iss(cs[6].status = "missing", "Missing Open Graph tags")
  \o Iss(cs[7].status = "warning", "Page set to noindex")
  \o Iss(cs[8].status = "missing", "Not mobile-friendly")
  \o Iss(cs[9].status = "missing", "Site not using HTTPS")
  \o Iss(cs[10].status = "missing", "Poor Core Web Vitals")

\* Variant: the total returned without Math.min(score, 100)
analyzeSEO_NoClamp(data, pageSpeedData) ==
  IF HasError(data)
  THEN [ score |-> 0, issues |-> <<>>, detailedChecks |-> <<>> ]
  ELSE LET cs == SEOChecks(data, pageSpeedData)
       IN [ score |-> SumScores(cs), issues |-> SEOIssues(data, cs),
            detailedChecks |-> cs ]

analyzeSEO(data, pageSpeedData) ==
  IF HasError(data)
  THEN [ score |-> 0, issues |-> <<>>, detailedChecks |-> <<>> ]
  ELSE LET cs == SEOChecks(data, pageSpeedData)
           score == SumScores(cs)
       IN [ score |-> Min(score, 100), issues |-> SEOIssues(data, cs),
            detailedChecks |-> cs ]

\* Variant: a policy is scored on its presence alone
CSPCheck_PresenceOnly(headers) ==
  IF headers.csp # "absent"
  THEN Check("Content Security Policy (CSP)", "good", 15, 15)
  ELSE Check("Content Security Policy (CSP)", "missing", 0, 15)

CSPCheck(headers) ==
  IF headers.csp # "absent"
  THEN IF headers.csp = "unsafe"
       THEN Check("Content Security Policy (CSP)", "partial", 10, 15)
       ELSE Check("Content Security Policy (CSP)", "good", 15, 15)
  ELSE Check("Content Security Policy (CSP)", "missing", 0, 15)

\* Variant: the page is scanned for http:// resources whatever the scheme
MixedContentCheck_AnyScheme(https, html) ==
  IF ~html.mixedContent
  THEN Check("Mixed Content", "good", 10, 10)
  ELSE Check("Mixed Content", "missing", 0, 10)

MixedContentCheck(https, html) ==
  IF https
  THEN IF ~html.mixedContent
       THEN Check("Mixed Content", "good", 10, 10)
       ELSE Check("Mixed Content", "missing", 0, 10)
  ELSE Check("Mixed Content", "partial", 0, 10)

SecurityChecks(url, data) ==
  LET html == HtmlOf(data)
      headers == HeadersOf(data)
      https == (url = "https")
      httpsCheck == IF https THEN Check("HTTPS / SSL Certificate", "good", 25, 25)
                    ELSE Check("HTTPS / SSL Certificate", "missing", 0, 25)
      hstsCheck == IF headers.hsts
                   THEN Check("HSTS (HTTP Strict Transport Security)", "good", 15, 15)
                   ELSE Check("HSTS (HTTP Strict Transport Security)", "missing", 0, 15)
      cspCheck == CSPCheck(headers)
      frameCheck == IF headers.xfo \/ (headers.csp # "absent" /\ headers.frameAncestors)
                    THEN Check("Clickjacking Protection", "good", 10, 10)
                    ELSE Check("Clickjacking Protection", "missing", 0, 10)
      mimeCheck == IF headers.xcto = "nosniff"
                   THEN Check("MIME Type Sniffing Protection", "good", 10, 10)
                   ELSE IF headers.xcto # "absent"
                        THEN Check("MIME Type Sniffing Protection", "partial", 5, 10)
                        ELSE Check("MIME Type Sniffing Protection", "missing", 0, 10)
      referrerCheck == IF headers.referrer THEN Check("Referrer Policy", "good", 5, 5)
                       ELSE Check("Referrer Policy", "missing", 0, 5)
      permissionsCheck == IF headers.permissions
                          THEN Check("Permissions Policy (Feature Policy)", "good", 5, 5)
                          ELSE Check("Permissions Policy (Feature Policy)", "missing", 0, 5)
      mixedContentCheck == MixedContentCheck(https, html)
      serverInfoCheck == IF ~headers.server /\ ~headers.poweredBy
                         THEN Check("Server Information Exposure", "good", 5, 5)
                         ELSE Check("Server Information Exposure", "partial", 2, 5)
  IN <<httpsCheck, hstsCheck, cspCheck, frameCheck, mimeCheck, referrerCheck,
       permissionsCheck, mixedContentCheck, serverInfoCheck>>

SecurityIssues(cs) ==
     Iss(cs[1].status = "missing", "Not using HTTPS - customer data is at risk")
  \o Iss(cs[2].status = "missing", "Missing HSTS header - browsers may connect via insecure HTTP")
  \o Iss(cs[3].status = "missing", "No Content Security Policy - site vulnerable to XSS attacks")
  \o Iss(cs[4].status = "missing", "No clickjacking protection - site can be embedded in malicious iframes")
  \o Iss(cs[8].status = "missing", "Mixed content found - HTTP resources on HTTPS page")

\* Variant: the grade bands of a ten-point scale
SecurityGrade_TenPoint(score) ==
  IF score >= 90 THEN "A" ELSE IF score >= 80 THEN "B" ELSE IF score >= 70 THEN "C"
  ELSE IF score >= 60 THEN "D" ELSE "F"

SecurityGrade(score) ==
  IF score >= 85 THEN "A" ELSE IF score >= 70 THEN "B" ELSE IF score >= 55 THEN "C"
  ELSE IF score >= 40 THEN "D" ELSE "F"

\* Variant: partial credit when the headers could not be read, as in the
\* earlier revision of the scorer
analyzeSecurityHeaders_PartialCredit(url, data) ==
  LET cs == SecurityChecks(url, data)
      score == SumScores(cs) + (IF Has(data, "headers") THEN 0 ELSE 30)
  IN [ score |-> Min(score, 100), grade |-> SecurityGrade(score),
       issues |-> SecurityIssues(cs), detailedChecks |-> cs ]

analyzeSecurityHeaders(url, data) ==
  LET cs == SecurityChecks(url, data)
      score == SumScores(cs)
  IN [ score |-> Min(score, 100), grade |-> SecurityGrade(score),
       issues |-> SecurityIssues(cs), detailedChecks |-> cs ]

\* Points of the HTML-derived accessibility checks
\* Variant: half of the images with alt text earn the full points
AltTextPoints_HalfIsEnough(html) ==
  IF html.imgs = 0 \/ html.imgsWithAlt * 2 >= html.imgs THEN 15 ELSE 0

AltTextPoints(html) ==
  IF html.imgs = 0 \/ html.imgsWithAlt * 10 >= html.imgs * 9 THEN 15
  ELSE IF html.imgsWithAlt * 2 >= html.imgs THEN 8 ELSE 0

HeadingPoints(html) ==
  IF html.h1Tags = 1 THEN 10 ELSE IF html.h1Tags > 0 THEN 5 ELSE 0

AccessibilityIssues(html) ==
     Iss(AltTextPoints(html) = 8, "N% of images missing alt text - screen readers cannot describe them")
  \o Iss(AltTextPoints(html) = 0, "Most images missing alt text - site not accessible to visually impaired users")
  \o Iss(html.h1Tags > 1, "Multiple H1 headings found - confuses screen readers")
  \o Iss(html.h1Tags = 0, "No H1 heading found - page structure unclear for assistive technology")
  \o Iss(html.formInputs /\ ~html.labels, "Form inputs may lack proper labels - difficult for screen reader users")
  \o Iss(~html.skipLink, "No skip navigation link - keyboard users must tab through entire header")
  \o Iss(~html.landmarks, "Missing ARIA landmarks - assistive technology cannot navigate page sections")
  \o Iss(html.lightText, "Potential color contrast issues - may be difficult to read for low vision users")
  \o Iss(~html.focusStyles, "No visible focus indicators found - keyboard navigation unclear")
  \o Iss(~html.langAttr, "Missing language attribute - screen readers may use wrong pronunciation")

\* Variant: the error marker short-circuits to score 0, as in the other scorers
analyzeAccessibility_ZeroOnError(data, pageSpeedData) ==
  IF HasError(data)
  THEN [ score |-> 0, issues |-> <<"Could not analyze website HTML">> ]
  ELSE LET a11y == A11yScore(pageSpeedData)
           base == IF a11y # UNDEF THEN RoundScaled(a11y, 40) ELSE 0
           html == HtmlOf(data)
           score == base + AltTextPoints(html) + HeadingPoints(html)
                  + (IF ~html.formInputs \/ html.labels THEN 10 ELSE 0)
                  + (IF html.skipLink THEN 5 ELSE 0)
                  + (IF html.landmarks THEN 5 ELSE 0)
                  + (IF ~html.lightText THEN 5 ELSE 0)
                  + (IF html.focusStyles THEN 5 ELSE 0)
                  + (IF html.langAttr THEN 5 ELSE 0)
       IN [ score |-> Min(score, 100), issues |-> AccessibilityIssues(html) ]

analyzeAccessibility(data, pageSpeedData) ==
  LET a11y == A11yScore(pageSpeedData)
      base == IF a11y # UNDEF THEN RoundScaled(a11y, 40) ELSE 0
      html == HtmlOf(data)
      score == base + AltTextPoints(html) + HeadingPoints(html)
             + (IF ~html.formInputs \/ html.labels THEN 10 ELSE 0)
             + (IF html.skipLink THEN 5 ELSE 0)
             + (IF html.landmarks THEN 5 ELSE 0)
             + (IF ~html.lightText THEN 5 ELSE 0)
             + (IF html.focusStyles THEN 5 ELSE 0)
             + (IF html.langAttr THEN 5 ELSE 0)
  IN IF HasError(data)
     THEN [ score |-> Max(base, 0), issues |-> <<"Could not analyze website HTML">> ]
     ELSE [ score |-> Min(score, 100), issues |-> AccessibilityIssues(html) ]

\* ------------------------------------------------------------------------
\* Insight fallback
\* ------------------------------------------------------------------------
\* Variant: the chatbot condition is tested before the mobile score
getDefaultInsights_ChatbotFirst(mobile, ai, aeo) ==
  LET noChatbot == ~(Has(ai.features, "chatbot") /\ ai.features.chatbot.detected)
      issues == Iss(noChatbot, "No 24/7 Lead Capture")
             \o Iss(mobile < 50, "Mobile Speed Needs Improvement")
             \o Iss(aeo.score < 50, "Not Optimized for AI Search")
      quickWins == Iss(noChatbot, "Add AI Chatbot")
                \o Iss(mobile < 50, "Compress Images")
                \o Iss(aeo.score < 50, "Add FAQ Schema")
  IN [ source |-> "default", wellFormed |-> TRUE,
       topIssues |-> SubSeq(issues, 1, Min(Len(issues), 4)),
       quickWins |-> SubSeq(quickWins, 1, Min(Len(quickWins), 4)),
       llmPositive |-> (aeo.score >= 60) ]

getDefaultInsights(mobile, ai, aeo) ==
  LET noChatbot == ~(Has(ai.features, "chatbot") /\ ai.features.chatbot.detected)
      issues == Iss(mobile < 50, "Mobile Speed Needs Improvement")
             \o Iss(noChatbot, "No 24/7 Lead Capture")
             \o Iss(aeo.score < 50, "Not Optimized for AI Search")
      quickWins == Iss(mobile < 50, "Compress Images")
                \o Iss(noChatbot, "Add AI Chatbot")
                \o Iss(aeo.score < 50, "Add FAQ Schema")
  IN [ source |-> "default", wellFormed |-> TRUE,
       topIssues |-> SubSeq(issues, 1, Min(Len(issues), 4)),
       quickWins |-> SubSeq(quickWins, 1, Min(Len(quickWins), 4)),
       llmPositive |-> (aeo.score >= 60) ]

\* What the producer's text turns into: JSON.parse of the first {...} span,
\* returned as it is.
ProducerInsights(shapeOk) == [ source |-> "producer", wellFormed |-> shapeOk ]

\* ------------------------------------------------------------------------
\* State
\* ------------------------------------------------------------------------
Sources == {"mobile", "desktop", "page"}

VARIABLES
  pc,                    \* position of POST
  apiKey,                \* process.env.GEMINI_API_KEY is set
  body,                  \* parsed request body, NULL before it is read
  normalizedUrl,         \* scheme of the normalized URL: "https", "http", "none"
  promise,               \* the three promises handed to Promise.all
  requests,              \* network requests issued, per source
  outcome,               \* what happened to each source's fetch
  pageSpeedMobile, pageSpeedDesktop, websiteData,   \* locals bound by the join
  mobileScore, desktopScore,
  aiReadiness, aeoGeoAnalysis, seoAnalysis, securityAnalysis, accessibilityAnalysis,
  producerCalls,         \* calls of model.generateContent
  aiInsights,
  responses              \* statuses of the responses returned, in order

vars == << pc, apiKey, body, normalizedUrl, promise, requests, outcome,
           pageSpeedMobile, pageSpeedDesktop, websiteData, mobileScore, desktopScore,
           aiReadiness, aeoGeoAnalysis, seoAnalysis, securityAnalysis,
           accessibilityAnalysis, producerCalls, aiInsights, responses >>

netVars == << promise, requests, outcome >>
joinVars == << pageSpeedMobile, pageSpeedDesktop, websiteData, mobileScore, desktopScore >>
scoreVars == << aiReadiness, aeoGeoAnalysis, seoAnalysis, securityAnalysis,
                accessibilityAnalysis >>
reqVars == << apiKey, body, normalizedUrl >>

\* A promise: its state, the status line once the response is in, and the
\* value it is fulfilled with (undefined until then)
NotStarted == [ state |-> "none", ok |-> FALSE, value |-> NULL ]
Pending == [ state |-> "pending", ok |-> FALSE, value |-> NULL ]
Reading(ok) == [ state |-> "reading", ok |-> ok, value |-> NULL ]
Settled(v) == [ state |-> "settled", ok |-> FALSE, value |-> v ]

\* ------------------------------------------------------------------------
\* Inputs
\* ------------------------------------------------------------------------
UrlKinds == {"", "bare", "http", "https"}
Bodies == [ url : UrlKinds, companyName : BOOLEAN, industry : BOOLEAN, city : BOOLEAN ]

Page(overrides) == [ f \in DOMAIN EmptyHtml |->
                       IF f \in DOMAIN overrides THEN overrides[f] ELSE EmptyHtml[f] ]

RichPage == Page([ chatHits |-> {"Tidio"}, blocks |-> <<"LocalBusiness", "FAQPage">>,
                   titleLen |-> 45, descLen |-> 140, ogTitle |-> TRUE,
                   ogDescription |-> TRUE, ogImage |-> TRUE, canonical |-> TRUE,
                   viewport |-> TRUE, h1Tags |-> 1, h1Text |-> 1, faqMention |-> TRUE,
                   phone |-> TRUE, address |-> TRUE, hours |-> TRUE, definitive |-> TRUE,
                   qaFormat |-> TRUE, lists |-> TRUE, services |-> TRUE,
                   expertise |-> TRUE, process |-> TRUE, statistics |-> TRUE,
                   imgs |-> 2, imgsWithAlt |-> 2, skipLink |-> TRUE, landmarks |-> TRUE,
                   focusStyles |-> TRUE, langAttr |-> TRUE ])
PlainPage == Page([ titleLen |-> 12, h1Tags |-> 2, h1Text |-> 2, imgs |-> 2,
                    imgsWithAlt |-> 1, mixedContent |-> TRUE, landmarks |-> TRUE ])
SamplePages == { EmptyHtml, PlainPage, RichPage }

Hardened == [ hsts |-> TRUE, csp |-> "safe", frameAncestors |-> TRUE, xfo |-> TRUE,
              xcto |-> "nosniff", referrer |-> TRUE, permissions |-> TRUE,
              server |-> FALSE, poweredBy |-> FALSE ]
SampleHeaders == { NoHeaders, Hardened }

Report(p, a) == [ performance |-> p, accessibility |-> a ]
SampleReports == { Report(30, 50), Report(95, 100) }

ErrorMessages == { "fetch failed" }

\* ------------------------------------------------------------------------
\* The two fetch functions, as functions of what the network did
\* ------------------------------------------------------------------------
\* net.kind: "transport" (fetch rejects), "unreadable" (the body read
\* rejects), "body" (status line in net.ok, payload in net.payload)
getPageSpeedData(net) ==
  IF net.kind = "transport" THEN NULL
  ELSE IF ~net.ok THEN NULL              \* also when response.text() rejects
  ELSE IF net.kind = "unreadable" THEN NULL
  ELSE net.payload

scrapeWebsiteData(url, net) ==
  IF net.kind \in {"transport", "unreadable"} THEN ErrorData(net.message)
  ELSE BuildData(url, net.payload.html, net.payload.headers)

FetchValue(s, url, net) ==
  IF s = "page" THEN scrapeWebsiteData(url, net) ELSE getPageSpeedData(net)

Payloads(s) ==
  IF s = "page" THEN [ html : SamplePages, headers : SampleHeaders ] ELSE SampleReports

\* ------------------------------------------------------------------------
\* POST
\* ------------------------------------------------------------------------
Init ==
  /\ pc = "start"
  /\ apiKey \in BOOLEAN
  /\ body = NULL
  /\ normalizedUrl = "none"
  /\ promise = [ s \in Sources |-> NotStarted ]
  /\ requests = [ s \in Sources |-> 0 ]
  /\ outcome = [ s \in Sources |-> "none" ]
  /\ pageSpeedMobile = NULL /\ pageSpeedDesktop = NULL /\ websiteData = NULL
  /\ mobileScore = 0 /\ desktopScore = 0
  /\ aiReadiness = NULL /\ aeoGeoAnalysis = NULL /\ seoAnalysis = NULL
  /\ securityAnalysis = NULL /\ accessibilityAnalysis = NULL
  /\ producerCalls = 0
  /\ aiInsights = NULL
  /\ responses = <<>>

\* Variant: the catch block answers and the handler starts over
Fail500_Retry ==
  /\ responses' = Append(responses, 500)
  /\ pc' = IF responses = <<>> THEN "start" ELSE "done"

\* The catch block of POST
Fail500 ==
  /\ responses' = Append(responses, 500)
  /\ pc' = "done"

\* request.json() rejects
BodyUnreadable ==
  /\ pc = "start"
  /\ Fail500
  /\ UNCHANGED << reqVars, netVars, joinVars, scoreVars, producerCalls, aiInsights >>

\* Variant: only the URL is validated
MissingField_UrlOnly(b) == b.url = ""

MissingField(b) == b.url = "" \/ ~b.companyName \/ ~b.industry \/ ~b.city

Normalize(url) == IF url \in {"http", "https"} THEN url ELSE "https"

\* request.json() resolves: validation, normalisation, and the synchronous
\* start of the three fetch functions up to their first await.
ReceiveBody(b) ==
  /\ pc = "start"
  /\ body' = b
  /\ IF MissingField(b)
     THEN /\ responses' = Append(responses, 400)
          /\ pc' = "done"
          /\ UNCHANGED << normalizedUrl, netVars >>
     ELSE /\ normalizedUrl' = Normalize(b.url)
          /\ promise' = [ s \in Sources |-> Pending ]
          /\ requests' = [ s \in Sources |-> requests[s] + 1 ]
          /\ pc' = "fetching"
          /\ UNCHANGED << outcome, responses >>
  /\ UNCHANGED << apiKey, joinVars, scoreVars, producerCalls, aiInsights >>

\* Variant: a rejected fetch is issued once more before giving up
FetchFails_Retry(s) ==
  /\ promise[s] = Pending
  /\ IF requests[s] < 2
     THEN /\ requests' = [ requests EXCEPT ![s] = @ + 1 ]
          /\ UNCHANGED << promise, outcome >>
     ELSE /\ promise' = [ promise EXCEPT ![s] =
                 Settled(FetchValue(s, normalizedUrl, [ kind |-> "transport", message |-> "fetch failed" ])) ]
          /\ outcome' = [ outcome EXCEPT ![s] = "transport" ]
          /\ UNCHANGED requests
  /\ UNCHANGED << pc, reqVars, joinVars, scoreVars, producerCalls, aiInsights, responses >>

\* fetch() rejects: the catch block of the fetch function settles its promise
FetchFails(s) ==
  /\ promise[s] = Pending
  /\ \E m \in ErrorMessages :
       promise' = [ promise EXCEPT ![s] =
                      Settled(FetchValue(s, normalizedUrl, [ kind |-> "transport", message |-> m ])) ]
  /\ outcome' = [ outcome EXCEPT ![s] = "transport" ]
  /\ UNCHANGED << pc, reqVars, requests, joinVars, scoreVars, producerCalls, aiInsights, responses >>

\* fetch() resolves with a response whose status is 2xx (ok) or not
FetchResponds(s, ok) ==
  /\ promise[s] = Pending
  /\ promise' = [ promise EXCEPT ![s] = Reading(ok) ]
  /\ outcome' = [ outcome EXCEPT ![s] = IF ok THEN "ok" ELSE "non2xx" ]
  /\ UNCHANGED << pc, reqVars, requests, joinVars, scoreVars, producerCalls, aiInsights, responses >>

\* response.json() / response.text() resolves
BodyArrives(s) ==
  /\ promise[s].state = "reading"
  /\ \E pl \in Payloads(s) :
       promise' = [ promise EXCEPT ![s] =
                      Settled(FetchValue(s, normalizedUrl,
                                [ kind |-> "body", ok |-> promise[s].ok, payload |-> pl ])) ]
  /\ UNCHANGED << pc, reqVars, requests, outcome, joinVars, scoreVars, producerCalls,
                  aiInsights, responses >>

\* response.json() / response.text() rejects
BodyFails(s) ==
  /\ promise[s].state = "reading"
  /\ \E m \in ErrorMessages :
       promise' = [ promise EXCEPT ![s] =
                      Settled(FetchValue(s, normalizedUrl,
                                [ kind |-> "unreadable", ok |-> promise[s].ok, message |-> m ])) ]
  /\ outcome' = [ outcome EXCEPT ![s] = IF promise[s].ok THEN "unreadable" ELSE "non2xx" ]
  /\ UNCHANGED << pc, reqVars, requests, joinVars, scoreVars, producerCalls, aiInsights, responses >>

\* Variant: the join resumes as soon as one promise has settled
AllSettled_Race == \E s \in Sources : promise[s].state = "settled"

\* Promise.all resolves
AllSettled == \A s \in Sources : promise[s].state = "settled"

Join ==
  /\ pc = "fetching"
  /\ AllSettled
  /\ pageSpeedMobile' = promise["mobile"].value
  /\ pageSpeedDesktop' = promise["desktop"].value
  /\ websiteData' = promise["page"].value
  /\ mobileScore' = RoundScaled(OrZero(PerfScore(promise["mobile"].value)), 100)
  /\ desktopScore' = RoundScaled(OrZero(PerfScore(promise["desktop"].value)), 100)
  /\ pc' = "ai"
  /\ UNCHANGED << reqVars, netVars, scoreVars, producerCalls, aiInsights, responses >>

AnalyzeAIReadiness ==
  /\ pc = "ai"
  /\ LET r == analyzeAIReadiness(websiteData) IN
       IF r = Thrown
       THEN Fail500 /\ UNCHANGED aiReadiness
       ELSE aiReadiness' = r /\ pc' = "aeo" /\ UNCHANGED responses
  /\ UNCHANGED << reqVars, netVars, joinVars, aeoGeoAnalysis, seoAnalysis, securityAnalysis,
                  accessibilityAnalysis, producerCalls, aiInsights >>

AnalyzeAEOGEO ==
  /\ pc = "aeo"
  /\ aeoGeoAnalysis' = analyzeAEOGEO(websiteData)
  /\ pc' = "seo"
  /\ UNCHANGED << reqVars, netVars, joinVars, aiReadiness, seoAnalysis, securityAnalysis,
                  accessibilityAnalysis, producerCalls, aiInsights, responses >>

AnalyzeSEO ==
  /\ pc = "seo"
  /\ seoAnalysis' = analyzeSEO(websiteData, pageSpeedMobile)
  /\ pc' = "security"
  /\ UNCHANGED << reqVars, netVars, joinVars, aiReadiness, aeoGeoAnalysis, securityAnalysis,
                  accessibilityAnalysis, producerCalls, aiInsights, responses >>

AnalyzeSecurityHeaders ==
  /\ pc = "security"
  /\ securityAnalysis' = analyzeSecurityHeaders(normalizedUrl, websiteData)
  /\ pc' = "accessibility"
  /\ UNCHANGED << reqVars, netVars, joinVars, aiReadiness, aeoGeoAnalysis, seoAnalysis,
                  accessibilityAnalysis, producerCalls, aiInsights, responses >>

AnalyzeAccessibility ==
  /\ pc = "accessibility"
  /\ accessibilityAnalysis' = analyzeAccessibility(websiteData, pageSpeedMobile)
  /\ pc' = "insights"
  /\ UNCHANGED << reqVars, netVars, joinVars, aiReadiness, aeoGeoAnalysis, seoAnalysis,
                  securityAnalysis, producerCalls, aiInsights, responses >>

\* generateAIInsights up to its await
GenerateAIInsights ==
  /\ pc = "insights"
  /\ IF ~apiKey
     THEN /\ aiInsights' = getDefaultInsights(mobileScore, aiReadiness, aeoGeoAnalysis)
          /\ pc' = "report"
          /\ UNCHANGED producerCalls
     ELSE /\ producerCalls' = producerCalls + 1
          /\ pc' = "awaitInsights"
          /\ UNCHANGED aiInsights
  /\ UNCHANGED << reqVars, netVars, joinVars, scoreVars, responses >>

ProducerKinds == {"valid", "malformed", "nojson", "badjson", "throws"}

\* model.generateContent settles
ProducerSettles(kind) ==
  /\ pc = "awaitInsights"
  /\ aiInsights' = IF kind \in {"valid", "malformed"}
                   THEN ProducerInsights(kind = "valid")
                   ELSE getDefaultInsights(mobileScore, aiReadiness, aeoGeoAnalysis)
  /\ pc' = "report"
  /\ UNCHANGED << reqVars, netVars, joinVars, scoreVars, producerCalls, responses >>

\* Variant: a failure while the report is built escapes the handler
BuildResponse_Uncaught ==
  /\ pc = "report"
  /\ responses' = IF aiInsights.wellFormed THEN Append(responses, 200) ELSE responses
  /\ pc' = "done"
  /\ UNCHANGED << reqVars, netVars, joinVars, scoreVars, producerCalls, aiInsights >>

\* scores, generateReportHTML and the response; the report template calls
\* aiInsights.topIssues.map and aiInsights.quickWins.map.
BuildResponse ==
  /\ pc = "report"
  /\ responses' = Append(responses, IF aiInsights.wellFormed THEN 200 ELSE 500)
  /\ pc' = "done"
  /\ UNCHANGED << reqVars, netVars, joinVars, scoreVars, producerCalls, aiInsights >>

Next ==
  \/ BodyUnreadable
  \/ \E b \in Bodies : ReceiveBody(b)
  \/ \E s \in Sources : FetchFails(s)
  \/ \E s \in Sources, ok \in BOOLEAN : FetchResponds(s, ok)
  \/ \E s \in Sources : BodyArrives(s)
  \/ \E s \in Sources : BodyFails(s)
  \/ Join
  \/ AnalyzeAIReadiness
  \/ AnalyzeAEOGEO
  \/ AnalyzeSEO
  \/ AnalyzeSecurityHeaders
  \/ AnalyzeAccessibility
  \/ GenerateAIInsights
  \/ \E k \in ProducerKinds : ProducerSettles(k)
  \/ BuildResponse

Spec == Init /\ [][Next]_vars

\* Every fetch and the producer call settle, and the event loop runs each
\* continuation that is ready.
SpecLive == Spec /\ WF_vars(Next)

\* ------------------------------------------------------------------------
\* The scorers as functions: POST from the join on, over every input class
\* ------------------------------------------------------------------------
RECURSIVE SeqsUpTo(_, _)
SeqsUpTo(S, n) ==
  IF n = 0 THEN { <<>> }
  ELSE LET shorter == SeqsUpTo(S, n - 1)
       IN shorter \cup { Append(q, x) : q \in { r \in shorter : Len(r) = n - 1 }, x \in S }

BlockSeqs == SeqsUpTo(BlockKinds, MaxBlocks)
SchemaSamples == { <<>>, <<"invalid">>, <<"Thing">>, <<"LocalBusiness">>, <<"FAQPage">>,
                   <<"FAQPageEscaped">>,
                   <<"LocalBusiness", "FAQPage">> }
TextLens(lo, hi) == { UNDEF, 0, lo - 1, lo, hi, hi + 1 }
LenClasses(lo, hi) == { UNDEF, lo - 1, (lo + hi) \div 2, hi + 1 }
SubScores == { UNDEF, 0, 49, 50, 89, 90, 100 }
Reports(perfs, a11ys) == { NULL } \cup { Report(p, a) : p \in perfs, a \in a11ys }

\* The response headers analyzeSecurityHeaders reads
HeaderSets ==
  [ hsts : BOOLEAN, csp : {"absent", "safe", "unsafe"}, frameAncestors : BOOLEAN,
    xfo : BOOLEAN, xcto : {"absent", "nosniff", "other"}, referrer : BOOLEAN,
    permissions : BOOLEAN, server : BOOLEAN, poweredBy : BOOLEAN ]

\* A page is what the patterns can report of one HTML text
WellFormedPage(html) ==
  /\ html.imgsWithAlt <= html.imgs
  /\ html.h1Text <= html.h1Tags

WellFormedHeaders(h) == h.frameAncestors => h.csp # "absent"

\* The locals of POST after the join, for one (url, data, mobile report)
Joined(u, data, r) ==
  /\ body = [ url |-> u, companyName |-> TRUE, industry |-> TRUE, city |-> TRUE ]
  /\ normalizedUrl = u
  /\ websiteData = data
  /\ pageSpeedMobile = r
  /\ mobileScore = RoundScaled(OrZero(PerfScore(r)), 100)
  /\ outcome = [ s \in Sources |->
                   IF s = "desktop" \/ (s = "mobile" /\ r = NULL)
                      \/ (s = "page" /\ HasError(data))
                   THEN "transport" ELSE "ok" ]
  /\ promise = [ s \in Sources |->
                   Settled(IF s = "mobile" THEN r ELSE IF s = "desktop" THEN NULL ELSE data) ]

Fetched(u, html, headers, r) ==
  /\ WellFormedPage(html)
  /\ WellFormedHeaders(headers)
  /\ Joined(u, BuildData(u, html, headers), r)

\* Pages that vary what analyzeAIReadiness reads
InitAI ==
  \E c \in SUBSET {"Intercom", "Tidio"}, v \in SUBSET {"Vapi.ai"},
     cp \in BOOLEAN, ci \in BOOLEAN, cs \in BOOLEAN, bs \in BlockSeqs :
    Fetched("https",
            Page([ chatHits |-> c, voiceHits |-> v, calcPlatform |-> cp, calcId |-> ci,
                   calcStructural |-> cs, blocks |-> bs ]),
            NoHeaders, NULL)

\* Pages that vary what analyzeAEOGEO reads
InitAEO ==
  \E bs \in SchemaSamples, f \in BOOLEAN,
     l \in BOOLEAN \X BOOLEAN \X BOOLEAN, a \in BOOLEAN \X BOOLEAN \X BOOLEAN,
     e \in BOOLEAN \X BOOLEAN, t \in BOOLEAN \X BOOLEAN :
    Fetched("https",
            Page([ blocks |-> bs, faqMention |-> f, phone |-> l[1], address |-> l[2],
                   hours |-> l[3], definitive |-> a[1], services |-> a[2],
                   process |-> a[3], expertise |-> e[1], statistics |-> e[2],
                   lists |-> t[1], qaFormat |-> t[2] ]),
            NoHeaders, NULL)

\* Pages that vary what analyzeSEO reads: the combinations of its checks ...
InitSEOChecks ==
  \E u \in {"http", "https"},
     tl \in LenClasses(TitleMin, TitleMax) \X LenClasses(DescMin, DescMax),
     h \in 0..MaxH1,
     bs \in { <<>>, <<"LocalBusiness">>, <<"LocalBusiness", "FAQPage">> },
     c \in BOOLEAN, og \in 0..2, rb \in {"absent", "noindex"}, v \in BOOLEAN,
     r \in Reports({50, 60, 90}, {100}) :
    Fetched(u,
            Page([ titleLen |-> tl[1], descLen |-> tl[2], h1Tags |-> h, h1Text |-> h,
                   blocks |-> bs, canonical |-> c, ogTitle |-> (og > 0),
                   ogDescription |-> (og > 0), ogImage |-> (og > 1), robots |-> rb,
                   viewport |-> v ]),
            NoHeaders, r)

\* ... the lengths around the thresholds and the two counts of H1 ...
InitSEOText ==
  \E t \in TextLens(TitleMin, TitleMax), d \in TextLens(DescMin, DescMax),
     h \in 0..MaxH1, x \in 0..MaxH1, rb \in {"absent", "index", "noindex"} :
    Fetched("https",
            Page([ titleLen |-> t, descLen |-> d, h1Tags |-> h, h1Text |-> x,
                   robots |-> rb ]),
            NoHeaders, NULL)

\* ... and the Open Graph tags, the schema types and the performance score
InitSEOTags ==
  \E og \in BOOLEAN \X BOOLEAN \X BOOLEAN, bs \in SchemaSamples, v \in BOOLEAN,
     r \in Reports(SubScores, {100}) :
    Fetched("https",
            Page([ ogTitle |-> og[1], ogDescription |-> og[2], ogImage |-> og[3],
                   blocks |-> bs, viewport |-> v ]),
            NoHeaders, r)

\* Headers and pages that vary what analyzeSecurityHeaders reads
InitSecurity ==
  \E u \in {"http", "https"}, h \in { EmptyHtml, PlainPage }, hd \in HeaderSets :
    Fetched(u, h, hd, NULL)

\* Pages and reports that vary what analyzeAccessibility reads
InitAccessibility ==
  \E n \in 0..MaxImgs, m \in 0..MaxImgs, h \in 0..MaxH1, f \in BOOLEAN \X BOOLEAN,
     k \in BOOLEAN \X BOOLEAN \X BOOLEAN \X BOOLEAN \X BOOLEAN,
     r \in Reports({50}, SubScores) :
    Fetched("https",
            Page([ imgs |-> n, imgsWithAlt |-> m, h1Tags |-> h, formInputs |-> f[1],
                   labels |-> f[2], skipLink |-> k[1], landmarks |-> k[2],
                   lightText |-> k[3], focusStyles |-> k[4], langAttr |-> k[5] ]),
            NoHeaders, r)

\* Pages with many images, for the shares of images with alt text
InitAltText ==
  \E m \in 0..ManyImgs, r \in Reports({50}, {UNDEF, 89}) :
    Fetched("https", Page([ imgs |-> ManyImgs, imgsWithAlt |-> m, h1Tags |-> 1,
                            h1Text |-> 1, langAttr |-> TRUE ]),
            NoHeaders, r)

\* A page that earns every point, and the failed page fetch
InitRich ==
  \E u \in {"http", "https"}, r \in Reports(SubScores, SubScores) :
    Fetched(u, RichPage, Hardened, r)

InitFailed ==
  \E u \in {"http", "https"}, m \in ErrorMessages, r \in Reports({50}, SubScores) :
    Joined(u, ErrorData(m), r)

InitScorers ==
  /\ pc = "ai"
  /\ apiKey = FALSE
  /\ \/ InitAI
     \/ InitAEO
     \/ InitSEOChecks
     \/ InitSEOText
     \/ InitSEOTags
     \/ InitSecurity
     \/ InitAccessibility
     \/ InitAltText
     \/ InitRich
     \/ InitFailed
  /\ pageSpeedDesktop = NULL /\ desktopScore = 0
  /\ requests = [ s \in Sources |-> 1 ]
  /\ aiReadiness = NULL /\ aeoGeoAnalysis = NULL /\ seoAnalysis = NULL
  /\ securityAnalysis = NULL /\ accessibilityAnalysis = NULL
  /\ producerCalls = 0
  /\ aiInsights = NULL
  /\ responses = <<>>

NextScorers ==
  \/ AnalyzeAIReadiness
  \/ AnalyzeAEOGEO
  \/ AnalyzeSEO
  \/ AnalyzeSecurityHeaders
  \/ AnalyzeAccessibility

SpecScorers == InitScorers /\ [][NextScorers]_vars

\* ------------------------------------------------------------------------
\* The scorer calls of POST taken in every order: each call is the call of
\* POST, on the locals bound by the join; only the sequence is left open.
\* ------------------------------------------------------------------------
Ran(r) == r # NULL

InitAnyOrder ==
  /\ pc = "scoring"
  /\ apiKey = FALSE
  /\ \/ InitRich
     \/ InitFailed
     \/ \E r \in SampleReports : Fetched("https", PlainPage, NoHeaders, r)
  /\ pageSpeedDesktop = NULL /\ desktopScore = 0
  /\ requests = [ s \in Sources |-> 1 ]
  /\ aiReadiness = NULL /\ aeoGeoAnalysis = NULL /\ seoAnalysis = NULL
  /\ securityAnalysis = NULL /\ accessibilityAnalysis = NULL
  /\ producerCalls = 0
  /\ aiInsights = NULL
  /\ responses = <<>>

ScoreAIReadiness ==
  /\ pc = "scoring" /\ aiReadiness = NULL
  /\ aiReadiness' = analyzeAIReadiness(websiteData)
  /\ UNCHANGED << pc, reqVars, netVars, joinVars, aeoGeoAnalysis, seoAnalysis,
                  securityAnalysis, accessibilityAnalysis, producerCalls, aiInsights,
                  responses >>

ScoreAEOGEO ==
  /\ pc = "scoring" /\ aeoGeoAnalysis = NULL
  /\ aeoGeoAnalysis' = analyzeAEOGEO(websiteData)
  /\ UNCHANGED << pc, reqVars, netVars, joinVars, aiReadiness, seoAnalysis,
                  securityAnalysis, accessibilityAnalysis, producerCalls, aiInsights,
                  responses >>

\* Variant: the SEO scorer reads a total another scorer left behind
ScoreSEO_SharedTotal ==
  /\ pc = "scoring" /\ seoAnalysis = NULL
  /\ seoAnalysis' = IF Ran(aiReadiness)
                    THEN [ analyzeSEO(websiteData, pageSpeedMobile) EXCEPT
                             !.score = Min(@ + aiReadiness.score, 100) ]
                    ELSE analyzeSEO(websiteData, pageSpeedMobile)
  /\ UNCHANGED << pc, reqVars, netVars, joinVars, aiReadiness, aeoGeoAnalysis,
                  securityAnalysis, accessibilityAnalysis, producerCalls, aiInsights,
                  responses >>

ScoreSEO ==
  /\ pc = "scoring" /\ seoAnalysis = NULL
  /\ seoAnalysis' = analyzeSEO(websiteData, pageSpeedMobile)
  /\ UNCHANGED << pc, reqVars, netVars, joinVars, aiReadiness, aeoGeoAnalysis,
                  securityAnalysis, accessibilityAnalysis, producerCalls, aiInsights,
                  responses >>

ScoreSecurityHeaders ==
  /\ pc = "scoring" /\ securityAnalysis = NULL
  /\ securityAnalysis' = analyzeSecurityHeaders(normalizedUrl, websiteData)
  /\ UNCHANGED << pc, reqVars, netVars, joinVars, aiReadiness, aeoGeoAnalysis,
                  seoAnalysis, accessibilityAnalysis, producerCalls, aiInsights,
                  responses >>

ScoreAccessibility ==
  /\ pc = "scoring" /\ accessibilityAnalysis = NULL
  /\ accessibilityAnalysis' = analyzeAccessibility(websiteData, pageSpeedMobile)
  /\ UNCHANGED << pc, reqVars, netVars, joinVars, aiReadiness, aeoGeoAnalysis,
                  seoAnalysis, securityAnalysis, producerCalls, aiInsights, responses >>

NextAnyOrder ==
  \/ ScoreAIReadiness
  \/ ScoreAEOGEO
  \/ ScoreSEO
  \/ ScoreSecurityHeaders
  \/ ScoreAccessibility

SpecAnyOrder == InitAnyOrder /\ [][NextAnyOrder]_vars

\* The `scores` object of POST
ScoreSummary ==
  [ mobile |-> mobileScore,
    desktop |-> desktopScore,
    aiReadiness |-> aiReadiness.score,
    seo |-> seoAnalysis.score,
    aeoGeo |-> aeoGeoAnalysis.score,
    security |-> securityAnalysis.score,
    accessibility |-> accessibilityAnalysis.score ]

\* ------------------------------------------------------------------------
\* Properties
\* ------------------------------------------------------------------------
InRange(r) == Ran(r) => (r.score >= 0 /\ r.score <= 100)
ChecksOf(r) == IF Ran(r) THEN r.detailedChecks ELSE <<>>
ValidBody == body # NULL /\ body.url # "" /\ body.companyName /\ body.industry /\ body.city
Started == \E s \in Sources : promise[s].state # "none"
Failed(s) == promise[s].state = "settled" /\ outcome[s] # "ok"

\* C1: the score of each of the five category scorers is an integer in
\* 0..100 for every input, also when the points of the checks sum above 100.
C1_ScoreInRange ==
  /\ InRange(aiReadiness)
  /\ InRange(aeoGeoAnalysis)
  /\ InRange(seoAnalysis)
  /\ InRange(securityAnalysis)
  /\ InRange(accessibilityAnalysis)

\* the SEO checks sum above 100 and the score returned is 100
C1_Witness ==
  /\ Ran(seoAnalysis)
  /\ SumScores(seoAnalysis.detailedChecks) > 100
  /\ seoAnalysis.score = 100

BoundedChecks(cs) == \A i \in 1..Len(cs) : cs[i].score >= 0 /\ cs[i].score <= cs[i].maxScore

\* C2: every DetailedCheck of analyzeAEOGEO, analyzeSEO and
\* analyzeSecurityHeaders has 0 <= score <= maxScore.
C2_CheckScoreBounded ==
  /\ BoundedChecks(ChecksOf(aeoGeoAnalysis))
  /\ BoundedChecks(ChecksOf(seoAnalysis))
  /\ BoundedChecks(ChecksOf(securityAnalysis))

\* the three scorers ran on a page whose schema check earns all its points
\* in AEO/GEO and in SEO, next to a check with partial credit
C2_Witness ==
  /\ Ran(securityAnalysis)
  /\ aeoGeoAnalysis.detailedChecks # <<>>
  /\ aeoGeoAnalysis.detailedChecks[1].score = 20
  /\ seoAnalysis.detailedChecks[4].score = 15
  /\ \E i \in 1..Len(seoAnalysis.detailedChecks) :
       /\ seoAnalysis.detailedChecks[i].score > 0
       /\ seoAnalysis.detailedChecks[i].score < seoAnalysis.detailedChecks[i].maxScore

SumIsScore(r) == Ran(r) => r.score = Min(100, SumScores(r.detailedChecks))

\* C3: for AEO/GEO, SEO and Security the category score is the sum of the
\* scores of its detailedChecks, capped at 100, for every input.
C3_ScoreIsCappedSum ==
  /\ SumIsScore(aeoGeoAnalysis)
  /\ SumIsScore(seoAnalysis)
  /\ SumIsScore(securityAnalysis)

\* the error-marked input: no checks and score 0 for AEO/GEO and SEO, nine
\* checks that sum to the score for Security
C3_Witness ==
  /\ HasError(websiteData)
  /\ Ran(securityAnalysis)
  /\ aeoGeoAnalysis.detailedChecks = <<>> /\ aeoGeoAnalysis.score = 0
  /\ seoAnalysis.detailedChecks = <<>> /\ seoAnalysis.score = 0
  /\ Len(securityAnalysis.detailedChecks) = 9
  /\ securityAnalysis.score = 40

\* C4: the three fetches are independent: a failed one (non-2xx, transport
\* error) leaves the steps of the other two enabled and the join able to
\* resume, a failed performance fetch is fulfilled with null and a failed
\* page fetch with an object that carries an error marker.
C4_IndependentFetches ==
  \A s \in Sources :
    Failed(s) =>
      /\ IF s = "page" THEN HasError(promise[s].value) ELSE promise[s].value = NULL
      /\ \A t \in Sources \ {s} :
           /\ promise[t].state = "pending" => ENABLED FetchResponds(t, TRUE)
           /\ promise[t].state = "reading" => ENABLED BodyArrives(t)
      /\ (pc = "fetching" /\ \A t \in Sources : promise[t].state = "settled") => ENABLED Join

\* C5: no scorer runs, no local of POST is bound and no response is produced
\* while one of the three fetches of the request is unsettled.
C5_JoinBeforeScoring ==
  (\/ pc \in {"ai", "aeo", "seo", "security", "accessibility", "insights",
              "awaitInsights", "report"}
   \/ Ran(aiReadiness) \/ Ran(aeoGeoAnalysis) \/ Ran(seoAnalysis)
   \/ Ran(securityAnalysis) \/ Ran(accessibilityAnalysis)
   \/ (Started /\ responses # <<>>))
  => /\ \A s \in Sources : promise[s].state = "settled"
     /\ pageSpeedMobile = promise["mobile"].value
     /\ pageSpeedDesktop = promise["desktop"].value
     /\ websiteData = promise["page"].value

\* all five scorers ran after a join in which one fetch had failed
C5_Witness ==
  /\ Ran(accessibilityAnalysis)
  /\ outcome["desktop"] = "non2xx"
  /\ outcome["page"] = "ok"
  /\ \A s \in Sources : promise[s].state = "settled"

\* C6: each of the three sources is requested exactly once per validated
\* request, whether its fetch succeeds or fails.
C6_OneRequestPerSource ==
  \A s \in Sources : requests[s] = IF promise[s].state = "none" THEN 0 ELSE 1

\* the request is answered after two fetches failed, one request each
C6_Witness ==
  /\ pc = "done"
  /\ outcome["mobile"] = "transport"
  /\ outcome["page"] = "transport"
  /\ outcome["desktop"] = "ok"
  /\ \A s \in Sources : requests[s] = 1

\* C7: a page fetch that completes with a non-2xx status yields a data object
\* that carries an error marker.
C7_Non2xxIsErrorMarked ==
  (promise["page"].state = "settled" /\ outcome["page"] = "non2xx")
    => HasError(promise["page"].value)

\* C8: a body with a missing or empty required field is answered with 400,
\* and no fetch, scorer or insight producer call is started for it.
C8_ValidationStopsRequest ==
  (body # NULL /\ (body.url = "" \/ ~body.companyName \/ ~body.industry \/ ~body.city))
  => /\ responses = <<400>>
     /\ pc = "done"
     /\ \A s \in Sources : requests[s] = 0 /\ promise[s].state = "none"
     /\ ~Ran(aiReadiness) /\ ~Ran(aeoGeoAnalysis) /\ ~Ran(seoAnalysis)
     /\ ~Ran(securityAnalysis) /\ ~Ran(accessibilityAnalysis)
     /\ producerCalls = 0 /\ aiInsights = NULL

\* a body that lacks only the city was answered with 400
C8_Witness ==
  /\ body # NULL
  /\ body.url = "https" /\ body.companyName /\ body.industry /\ ~body.city
  /\ responses = <<400>>

\* C9: for a validated request every combination of failed fetches is
\* absorbed: each scorer returns a result, and the request is answered with
\* 200 unless the insight producer's unvalidated JSON breaks the report.
C9_FetchFailuresAbsorbed ==
  ValidBody =>
    /\ pc \in {"aeo", "seo", "security", "accessibility", "insights", "awaitInsights",
               "report"} => Ran(aiReadiness) /\ Has(aiReadiness, "score")
    /\ pc = "done" =>
         /\ Ran(accessibilityAnalysis)
         /\ \/ responses = <<200>>
            \/ responses = <<500>> /\ aiInsights # NULL /\ ~aiInsights.wellFormed

\* all three fetches failed and the request was answered with 200
C9_Witness ==
  /\ pc = "done"
  /\ \A s \in Sources : Failed(s)
  /\ outcome["page"] = "transport"
  /\ responses = <<200>>

\* C10: with an error-marked page and both performance reports null, each of
\* the five category scores is 0 and each result carries at least one issue.
C10_DegenerateScoresZero ==
  (HasError(websiteData) /\ pageSpeedMobile = NULL /\ pageSpeedDesktop = NULL
     /\ Ran(accessibilityAnalysis))
  => /\ aiReadiness.score = 0 /\ aiReadiness.issues # <<>>
     /\ aeoGeoAnalysis.score = 0 /\ aeoGeoAnalysis.issues # <<>>
     /\ seoAnalysis.score = 0 /\ seoAnalysis.issues # <<>>
     /\ securityAnalysis.score = 0 /\ securityAnalysis.issues # <<>>
     /\ accessibilityAnalysis.score = 0 /\ accessibilityAnalysis.issues # <<>>

\* C11: the insights handed to the report are either the deterministic
\* fallback built from the scores or a producer response of the expected
\* shape; a producer response of another shape is replaced by the fallback.
C11_MalformedFallsBack ==
  aiInsights # NULL =>
    \/ aiInsights = getDefaultInsights(mobileScore, aiReadiness, aeoGeoAnalysis)
    \/ aiInsights.source = "producer" /\ aiInsights.wellFormed

\* C12: title length 45, description length 140, one H1, structured data,
\* HTTPS, canonical link, Open Graph title and description and a mobile
\* performance sub-score of 0.6 give an SEO score of 100.
C12_SEOFullScore ==
  (/\ Ran(seoAnalysis)
   /\ ~HasError(websiteData)
   /\ websiteData.metaTags.title = 45
   /\ websiteData.metaTags.description = 140
   /\ websiteData.headings.h1 = 1
   /\ websiteData.schemaMarkup.found
   /\ websiteData.hasHttps
   /\ websiteData.metaTags.canonical
   /\ websiteData.metaTags.ogTitle /\ websiteData.metaTags.ogDescription
   /\ pageSpeedMobile # NULL /\ pageSpeedMobile.performance = 60)
  => seoAnalysis.score = 100

Scraped == Has(websiteData, "html")

\* C13: a LocalBusiness block and a FAQPage block, both well formed, give
\* hasLocalBusiness, hasFAQSchema and count = 2, and analyzeAIReadiness adds
\* 10 + 5 + 5 = 20 points for them to the points of the detected features.
C13_TwoBlocks ==
  (Scraped /\ websiteData.html.blocks \in { <<"LocalBusiness", "FAQPage">>,
                                            <<"FAQPage", "LocalBusiness">> })
  => /\ websiteData.schemaMarkup.hasLocalBusiness
     /\ websiteData.schemaMarkup.hasFAQSchema
     /\ websiteData.schemaMarkup.count = 2
     /\ Ran(aiReadiness) =>
          aiReadiness.score = (IF websiteData.hasChatbot.detected THEN 30 ELSE 0)
                            + (IF websiteData.hasVoiceAgent.detected THEN 25 ELSE 0)
                            + (IF websiteData.hasCalculator.detected THEN 25 ELSE 0)
                            + 20

\* the two blocks are the only signal of the page: AI readiness is 20
C13_Witness ==
  /\ Scraped
  /\ websiteData.html.blocks = <<"LocalBusiness", "FAQPage">>
  /\ websiteData.schemaMarkup.count = 2
  /\ Ran(aiReadiness)
  /\ aiReadiness.score = 20

\* C14: for every sequence of blocks, count is the number of blocks that
\* parse, found is count > 0, and each aggregate flag is set iff a block that
\* parses declares the type; blocks that fail to parse are skipped.
C14_MalformedBlockSkipped ==
  Scraped =>
    LET bs == websiteData.html.blocks
        sm == websiteData.schemaMarkup
        parsed == { i \in 1..Len(bs) : bs[i] # "invalid" }
    IN /\ sm.count = Cardinality(parsed)
       /\ sm.found = (Cardinality(parsed) > 0)
       /\ sm.hasLocalBusiness = (\E i \in parsed : bs[i] = "LocalBusiness")
       /\ sm.hasFAQSchema = (\E i \in parsed : DeclaredType(bs[i]) = "FAQPage")
       /\ sm.hasReviewSchema = (\E i \in parsed : bs[i] = "Review")
       /\ sm.hasServiceSchema = FALSE

\* a block that fails to parse next to a FAQPage block
C14_Witness ==
  /\ Scraped
  /\ websiteData.html.blocks = <<"invalid", "FAQPage">>
  /\ websiteData.schemaMarkup.count = 1
  /\ websiteData.schemaMarkup.hasFAQSchema

AllRan ==
  /\ Ran(aiReadiness) /\ Ran(aeoGeoAnalysis) /\ Ran(seoAnalysis)
  /\ Ran(securityAnalysis) /\ Ran(accessibilityAnalysis)

C17_UnhandledIs500Once ==
  /\ Len(responses) <= 1
  /\ (pc = "done") = (Len(responses) = 1)
  /\ \A s \in Sources : requests[s] <= 1
  /\ producerCalls <= 1
  /\ (pc = "done" /\ body = NULL) =>
       responses = <<500>> /\ \A s \in Sources : requests[s] = 0
  /\ (pc = "done" /\ aiInsights # NULL /\ ~aiInsights.wellFormed) => responses = <<500>>
  /\ responses = <<500>> => (body = NULL \/ (aiInsights # NULL /\ ~aiInsights.wellFormed))

\* the report could not be built from the producer's response: one 500
C17_Witness ==
  /\ pc = "done"
  /\ responses = <<500>>
  /\ aiInsights # NULL /\ ~aiInsights.wellFormed
  /\ producerCalls = 1
  /\ \A s \in Sources : requests[s] = 1

\* The patterns of the calculator detector, in the order they are tested
CalcLabels == <<"Third-party Calculator Tool", "Custom Calculator",
                "Interactive Quote Form", "Calculator/Quote Tool">>
CalcSpecificHits(html) ==
  { l \in {"Third-party Calculator Tool"} : html.calcPlatform }
    \cup { l \in {"Custom Calculator"} : html.calcId }
    \cup { l \in {"Interactive Quote Form"} : html.calcQuoteForm }
CalcHits(html) ==
  CalcSpecificHits(html) \cup { l \in {"Calculator/Quote Tool"} : html.calcStructural }
InRegistryOrder(registry, hits) == SelectSeq(registry, LAMBDA l : l \in hits)
NoDuplicates(q) == \A i, j \in 1..Len(q) : q[i] = q[j] => i = j

ProvidersAreMatches(result, registry, hits) ==
  /\ result.detected = (hits # {})
  /\ result.providers = InRegistryOrder(registry, hits)
  /\ NoDuplicates(result.providers)

\* C18 as stated: for each of the three detectors, detected iff a pattern
\* matched, and the list holds exactly the labels whose pattern matched, in
\* registry order, none twice.
C18_ListsEveryMatch ==
  Scraped =>
    /\ ProvidersAreMatches(websiteData.hasChatbot, ChatbotRegistry, websiteData.html.chatHits)
    /\ ProvidersAreMatches(websiteData.hasVoiceAgent, VoiceRegistry, websiteData.html.voiceHits)
    /\ websiteData.hasCalculator.detected = (CalcHits(websiteData.html) # {})
    /\ websiteData.hasCalculator.types = InRegistryOrder(CalcLabels, CalcHits(websiteData.html))
    /\ NoDuplicates(websiteData.hasCalculator.types)

\* C18 amended: as stated for the chatbot and voice-agent detectors; the
\* calculator detector lists the matched vendor, id and quote-form labels in
\* registry order and lists the generic structural label only when a
\* structural pattern matched and none of those three did.
C18_GenericLabelIsFallback ==
  Scraped =>
    /\ ProvidersAreMatches(websiteData.hasChatbot, ChatbotRegistry, websiteData.html.chatHits)
    /\ ProvidersAreMatches(websiteData.hasVoiceAgent, VoiceRegistry, websiteData.html.voiceHits)
    /\ websiteData.hasCalculator.detected = (CalcHits(websiteData.html) # {})
    /\ websiteData.hasCalculator.types =
         IF CalcSpecificHits(websiteData.html) # {}
         THEN InRegistryOrder(CalcLabels, CalcSpecificHits(websiteData.html))
         ELSE InRegistryOrder(CalcLabels, CalcHits(websiteData.html))
    /\ NoDuplicates(websiteData.hasCalculator.types)

\* a structural pattern and the vendor pattern both matched: one label
C18_Witness ==
  /\ Scraped
  /\ websiteData.html.calcStructural /\ websiteData.html.calcPlatform
  /\ websiteData.hasCalculator.types = <<"Third-party Calculator Tool">>
  /\ Len(websiteData.hasChatbot.providers) = 2

\* C19: confidence is "high" when a vendor fingerprint matched, "medium"
\* when only a structural pattern matched, "none" when nothing matched; for
\* the calculator detector the vendor fingerprint is the platform pattern.
C19_ConfidenceLevels ==
  Scraped =>
    /\ websiteData.hasChatbot.confidence =
         IF websiteData.html.chatHits # {} THEN "high" ELSE "none"
    /\ websiteData.hasVoiceAgent.confidence =
         IF websiteData.html.voiceHits # {} THEN "high" ELSE "none"
    /\ websiteData.hasCalculator.confidence =
         IF websiteData.html.calcPlatform THEN "high"
         ELSE IF CalcHits(websiteData.html) # {} THEN "medium"
         ELSE "none"

\* C20: the letter grade is determined by the reported security score:
\* A from 85, B from 70, C from 55, D from 40, F below.
C20_GradeFromScore ==
  Ran(securityAnalysis) =>
    securityAnalysis.grade =
      IF securityAnalysis.score >= 85 THEN "A"
      ELSE IF securityAnalysis.score >= 70 THEN "B"
      ELSE IF securityAnalysis.score >= 55 THEN "C"
      ELSE IF securityAnalysis.score >= 40 THEN "D"
      ELSE "F"

\* a score on the lower edge of a band
C20_Witness ==
  /\ Ran(securityAnalysis)
  /\ securityAnalysis.score = 85
  /\ securityAnalysis.grade = "A"

CSPMissingIssue == "No Content Security Policy - site vulnerable to XSS attacks"
InSeq(x, q) == \E i \in 1..Len(q) : q[i] = x

\* C21: a Content-Security-Policy with unsafe-inline or unsafe-eval makes the
\* CSP check "partial" with fewer points than a policy without them (10 of
\* 15), the policy still counting as present (no missing-policy issue); a
\* policy without the tokens is "good" with all 15 points.
C21_UnsafeCSPIsPartial ==
  (Ran(securityAnalysis) /\ Scraped) =>
    LET csp == securityAnalysis.detailedChecks[3] IN
    /\ websiteData.headers.csp = "unsafe" =>
         /\ csp.status = "partial" /\ csp.score = 10 /\ csp.score < csp.maxScore
         /\ ~InSeq(CSPMissingIssue, securityAnalysis.issues)
    /\ websiteData.headers.csp = "safe" =>
         /\ csp.status = "good" /\ csp.score = 15 /\ csp.score = csp.maxScore
         /\ ~InSeq(CSPMissingIssue, securityAnalysis.issues)
    /\ websiteData.headers.csp = "absent" =>
         /\ csp.status = "missing" /\ csp.score = 0
         /\ InSeq(CSPMissingIssue, securityAnalysis.issues)

\* a policy with an unsafe token was scored
C21_Witness ==
  /\ Ran(securityAnalysis) /\ Scraped
  /\ websiteData.headers.csp = "unsafe"
  /\ securityAnalysis.detailedChecks[3].status = "partial"
  /\ securityAnalysis.detailedChecks[3].score = 10

\* C22: for a URL that is not https the mixed-content check contributes 0
\* whatever the page holds and a result is returned; for an https URL it
\* contributes 10 iff the HTML references no http:// resource, else 0.
C22_MixedContent ==
  Ran(securityAnalysis) =>
    LET mc == securityAnalysis.detailedChecks[8]
        mixed == Scraped /\ websiteData.html.mixedContent
    IN /\ Has(securityAnalysis, "score") /\ Len(securityAnalysis.detailedChecks) = 9
       /\ normalizedUrl # "https" => mc.score = 0
       /\ normalizedUrl = "https" => mc.score = (IF mixed THEN 0 ELSE 10)

\* a plain-http page without any http:// resource reference earned nothing
C22_Witness ==
  /\ Ran(securityAnalysis) /\ Scraped
  /\ normalizedUrl = "http"
  /\ ~websiteData.html.mixedContent
  /\ securityAnalysis.detailedChecks[8].score = 0
  /\ securityAnalysis.score > 0

\* The accessibility score of the page of `data` with some of the fields of
\* its HTML replaced
A11yScoreWith(changes) ==
  analyzeAccessibility(
    [ websiteData EXCEPT !.html = [ f \in DOMAIN @ |->
        IF f \in DOMAIN changes THEN changes[f] ELSE @[f] ] ],
    pageSpeedMobile).score

\* Points of the alt-text check: what the score loses against the same page
\* without images, which earns the 15 points
AltTextEarned ==
  accessibilityAnalysis.score - A11yScoreWith([ imgs |-> 0, imgsWithAlt |-> 0 ]) + 15

AltPartialIssue == "N% of images missing alt text - screen readers cannot describe them"
AltMissingIssue == "Most images missing alt text - site not accessible to visually impaired users"

\* C23: the alt-text check awards 15 points when there are no images or at
\* least 90% of them have alt text, 8 points and an issue from 50% up to 90%,
\* and 0 points and an issue below 50%.
C23_AltTextTiers ==
  (Ran(accessibilityAnalysis) /\ Scraped) =>
    LET n == websiteData.html.imgs
        a == websiteData.html.imgsWithAlt
        issues == accessibilityAnalysis.issues
    IN IF n = 0 \/ 10 * a >= 9 * n
       THEN /\ AltTextEarned = 15
            /\ ~InSeq(AltPartialIssue, issues) /\ ~InSeq(AltMissingIssue, issues)
       ELSE IF 2 * a >= n
       THEN AltTextEarned = 8 /\ InSeq(AltPartialIssue, issues)
       ELSE AltTextEarned = 0 /\ InSeq(AltMissingIssue, issues)

\* a share of at least 50% and below 90%: 8 points
C23_Witness ==
  /\ Ran(accessibilityAnalysis) /\ Scraped
  /\ websiteData.html.imgs = ManyImgs
  /\ websiteData.html.imgsWithAlt * 10 < websiteData.html.imgs * 9
  /\ websiteData.html.imgsWithAlt * 10 > websiteData.html.imgs * 5
  /\ AltTextEarned = 8
  /\ accessibilityAnalysis.score = 36 + 8 + 10 + 10 + 5 + 5

\* Points of the heading check of analyzeAccessibility: what the score loses
\* against the same page with exactly one H1
HeadingEarned ==
  accessibilityAnalysis.score - A11yScoreWith([ h1Tags |-> 1 ]) + 10

\* C24: by the number of H1 elements of the page, analyzeSEO awards 15 for
\* one, 5 for more than one and 0 for none, analyzeAccessibility awards
\* 10 / 5 / 0, and with more than one each scorer adds its multiple-H1 issue.
C24_MultipleH1Penalised ==
  Scraped =>
    LET h1s == websiteData.html.h1Tags IN
    /\ Ran(seoAnalysis) =>
         /\ seoAnalysis.detailedChecks[3].score =
              IF h1s = 1 THEN 15 ELSE IF h1s > 1 THEN 5 ELSE 0
         /\ InSeq("Multiple H1 tags found", seoAnalysis.issues) = (h1s > 1)
    /\ Ran(accessibilityAnalysis) =>
         /\ HeadingEarned = IF h1s = 1 THEN 10 ELSE IF h1s > 1 THEN 5 ELSE 0
         /\ InSeq("Multiple H1 headings found - confuses screen readers",
                  accessibilityAnalysis.issues) = (h1s > 1)

\* C25: the structured-formatting check of analyzeAEOGEO contributes 15 with
\* both structured lists and Q&A format, 8 with exactly one of them,
\* whichever it is, and 0 with neither.
C25_StructureCheckPoints ==
  (Ran(aeoGeoAnalysis) /\ Scraped) =>
    LET aeo == websiteData.aeoIndicators IN
    aeoGeoAnalysis.detailedChecks[6].score =
      IF aeo.hasStructuredLists /\ aeo.hasQAFormat THEN 15
      ELSE IF aeo.hasStructuredLists \/ aeo.hasQAFormat THEN 8
      ELSE 0

C27_PerformanceFloor ==
  (HasError(websiteData) /\ Ran(accessibilityAnalysis)) =>
    /\ accessibilityAnalysis.score =
         IF pageSpeedMobile = NULL \/ pageSpeedMobile.accessibility = UNDEF THEN 0
         ELSE (pageSpeedMobile.accessibility * 40 + 50) \div 100
    /\ accessibilityAnalysis.score <= 40
    /\ Len(accessibilityAnalysis.issues) = 1

\* the page fetch failed and the report's sub-score of 0.89 gives 36
C27_Witness ==
  /\ HasError(websiteData) /\ Ran(accessibilityAnalysis)
  /\ pageSpeedMobile # NULL /\ pageSpeedMobile.accessibility = 89
  /\ accessibilityAnalysis.score = 36

\* C28: every request whose fetches and producer call settle ends with a
\* response; there is never more than one, a finished request has exactly
\* one, and its status is 200, 400 or 500.
C28_ExactlyOneResponse ==
  /\ <>(pc = "done")
  /\ [](Len(responses) <= 1)
  /\ [](pc = "done" => (Len(responses) = 1 /\ responses[1] \in {200, 400, 500}))

\* a request answered 200 after the producer call settled
C28_Witness ==
  /\ pc = "done"
  /\ producerCalls = 1
  /\ responses = <<200>>
  /\ \A s \in Sources : promise[s].state = "settled"

\* The issue and the quick win of each condition, in the order tested
InsightPairs(mobileLow, noChatbot, aeoLow) ==
     Iss(mobileLow, <<"Mobile Speed Needs Improvement", "Compress Images">>)
  \o Iss(noChatbot, <<"No 24/7 Lead Capture", "Add AI Chatbot">>)
  \o Iss(aeoLow, <<"Not Optimized for AI Search", "Add FAQ Schema">>)

\* C29: the fallback insights hold one issue / quick-win pair per triggered
\* condition and no other, in the order mobile score < 50, no chatbot
\* detected, AEO/GEO score < 50, so the two lists have equal length, at most
\* 3; the recommendation is the positive one iff the AEO/GEO score is >= 60.
C29_DefaultInsights ==
  (aiInsights # NULL /\ aiInsights.source = "default") =>
    LET noChatbot == ~(Has(aiReadiness.features, "chatbot")
                       /\ aiReadiness.features.chatbot.detected)
        pairs == InsightPairs(mobileScore < 50, noChatbot, aeoGeoAnalysis.score < 50)
    IN /\ aiInsights.topIssues = [ i \in 1..Len(pairs) |-> pairs[i][1] ]
       /\ aiInsights.quickWins = [ i \in 1..Len(pairs) |-> pairs[i][2] ]
       /\ Len(aiInsights.topIssues) = Len(aiInsights.quickWins)
       /\ Len(aiInsights.topIssues) <= 3
       /\ aiInsights.llmPositive = (aeoGeoAnalysis.score >= 60)

\* the fallback after a producer failure, for a slow page without chatbot
\* and with a low AEO/GEO score: three pairs, in the order tested
C29_Witness ==
  /\ aiInsights # NULL /\ aiInsights.source = "default"
  /\ producerCalls = 1
  /\ aiInsights.topIssues = <<"Mobile Speed Needs Improvement", "No 24/7 Lead Capture",
                               "Not Optimized for AI Search">>
  /\ aiInsights.quickWins = <<"Compress Images", "Add AI Chatbot", "Add FAQ Schema">>
  /\ ~aiInsights.llmPositive

MissingScoresZero(cs) == \A i \in 1..Len(cs) : cs[i].status = "missing" => cs[i].score = 0

\* C30: in every DetailedCheck of analyzeAEOGEO, analyzeSEO and
\* analyzeSecurityHeaders, status "missing" implies score 0.
C30_MissingMeansZero ==
  /\ MissingScoresZero(ChecksOf(aeoGeoAnalysis))
  /\ MissingScoresZero(ChecksOf(seoAnalysis))
  /\ MissingScoresZero(ChecksOf(securityAnalysis))

====
